---- MODULE Spec2Model ----
(***************************************************************************)
(* The request-execution engine of the Fortitude Python client             *)
(* (fortitude_client.py): FortitudeClient._make_request and                *)
(* AsyncFortitudeClient._make_request, with the in-memory response cache,  *)
(* the retry loop with exponential backoff and the mapping of responses    *)
(* and transport failures to FortitudeAPIError.                            *)
(*                                                                         *)
(* Python values are represented as follows.  None is the empty sequence   *)
(* and a present optional value v is <<v>>.  A dict is a function from     *)
(* its keys.  An exception is named by its class.  A message built by an   *)
(* f-string is the sequence of its pieces.  Time is counted in whole       *)
(* seconds.                                                                *)
(***************************************************************************)
EXTENDS Integers, Sequences, FiniteSets, TLC

(* Bounds of the model. *)
MaxRetries == 2
MaxTime == 3
MaxCalls == 2
MaxLifeOps == 4

VARIABLES
    variant,       \* "blocking" (FortitudeClient) or "async" (AsyncFortitudeClient)
    max_retries,   \* self.max_retries
    enable_cache,  \* self.enable_cache
    cache_ttl,     \* self.cache_ttl
    cache,         \* self._cache: cache key -> [data, timestamp]
    now,           \* time.time()
    calls,         \* the state of each caller's current _make_request call
    ncalls,        \* number of calls begun so far
    served,        \* history: key -> the last 200 payload a cacheable GET call returned
    client,        \* construction: its inputs, its outcome, api_key, timeout, open scopes
    session,       \* self.session / self._session: None or the transport handle held
    handles,       \* history: for each handle acquired, how often it was closed
    validator      \* the phase validator: its project, its arguments, its report

vars == <<variant, max_retries, enable_cache, cache_ttl, cache, now, calls, ncalls, served,
          client, session, handles, validator>>

None == <<>>
Some(v) == <<v>>

CallIds == {1}

(***************************************************************************)
(* Inputs: requests, response bodies and transport outcomes.               *)
(***************************************************************************)
BaseUrl == "http://localhost:8080"

ParamsPage == <<<<"offset", 0>>, <<"limit", 20>>>>

Request(method, endpoint, params, use_cache) ==
    [method |-> method, endpoint |-> endpoint, params |-> params, use_cache |-> use_cache]

Requests ==
    { Request("GET", "/api/v1/research", None, TRUE),
      Request("GET", "/api/v1/research", None, FALSE),
      Request("GET", "/api/v1/research", Some(ParamsPage), TRUE),
      Request("POST", "/api/v1/research", None, TRUE),
      Request("POST", "/api/v1/research", None, FALSE) }

\* cache_ttl values tried on a cache-enabled client, and the default
TtlSamples == {1, 2}
DefaultCacheTtl == 300

\* A response body: its content type, the shape of its text, the fields of
\* the JSON object it holds (when it holds one) and its raw text.
BodyPayload1 == [ctype |-> "json", text |-> "object", fields |-> [data |-> "p1"], raw |-> "{p1}"]
BodyPayload2 == [ctype |-> "json", text |-> "object", fields |-> [data |-> "p2"], raw |-> "{p2}"]
BodyError ==
    [ctype |-> "json", text |-> "object",
     fields |-> [message |-> "m1", error_code |-> "E1", request_id |-> "r1", details |-> "d1"],
     raw |-> "{m1,E1,r1,d1}"]
BodyMalformed == [ctype |-> "json", text |-> "bad", fields |-> <<>>, raw |-> "{oops"]
BodyHtml == [ctype |-> "other", text |-> "bad", fields |-> <<>>, raw |-> "<html>"]
NoBody == [ctype |-> "none", text |-> "none", fields |-> <<>>, raw |-> ""]

Response(status, body) == [kind |-> "response", status |-> status, body |-> body]
Failure(kind) == [kind |-> kind, status |-> 0, body |-> NoBody]

Outcomes ==
    { Failure("connfail"), Failure("timeout") }
    \cup { Response(200, b) : b \in {BodyPayload1, BodyPayload2, BodyHtml, BodyMalformed} }
    \cup { Response(s, b) : s \in {404, 500}, b \in {BodyError, BodyHtml, BodyMalformed} }
    \cup { Response(s, BodyError) : s \in {201, 503} }

Tag(o) == [kind |-> o.kind, status |-> o.status]

(***************************************************************************)
(* Results of a call.                                                      *)
(***************************************************************************)
NoResult == [kind |-> "none"]
Ok(v) == [kind |-> "ok", data |-> v]
FortitudeAPIError(message, error_code, status_code, request_id, details) ==
    [kind |-> "FortitudeAPIError", message |-> message, error_code |-> error_code,
     status_code |-> status_code, request_id |-> request_id, details |-> details]
Raised(exc) == [kind |-> "raised", exc |-> exc]

(***************************************************************************)
(* The cache key and the cache conditions.                                 *)
(***************************************************************************)
ParamKeyOrder == <<"limit", "offset", "query", "sort">>
KeyRank(k) == CHOOSE i \in 1..Len(ParamKeyOrder) : ParamKeyOrder[i] = k

RECURSIVE InsertItem(_, _)
InsertItem(item, sorted) ==
    IF sorted = <<>> THEN <<item>>
    ELSE IF KeyRank(item[1]) <= KeyRank(Head(sorted)[1]) THEN <<item>> \o sorted
    ELSE <<Head(sorted)>> \o InsertItem(item, Tail(sorted))

RECURSIVE SortItems(_)
SortItems(items) ==
    IF items = <<>> THEN <<>> ELSE InsertItem(Head(items), SortItems(Tail(items)))

\* Mutant of json_dumps_sorted: the items are written in insertion order.
json_dumps_unsorted(params) == IF params = None THEN <<>> ELSE params[1]

\* json.dumps(params or {}, sort_keys=True)
json_dumps_sorted(params) == IF params = None THEN <<>> ELSE SortItems(params[1])

urljoin(base, endpoint) == <<base, endpoint>>

cache_key(req) == <<req.method, urljoin(BaseUrl, req.endpoint), json_dumps_sorted(req.params)>>

\* Mutants of IsFresh: the comparison turned round, and the boundary included.
IsFreshReversed(entry) == now - entry.timestamp > cache_ttl
IsFreshInclusive(entry) == now - entry.timestamp <= cache_ttl

\* line 93: time.time() - cache_entry['timestamp'] < self.cache_ttl
\* Mutant of IsFresh: the age of an entry is counted from the lookup itself.
IsFreshSliding(entry) == now - now < cache_ttl

IsFresh(entry) == now - entry.timestamp < cache_ttl

\* Mutant of CacheReadable: the per-call use_cache flag is not looked at.
CacheReadableAnyCall(req, key) ==
    enable_cache /\ req.method = "GET" /\ key \in DOMAIN cache

\* line 91: the condition under which the cache is consulted
CacheReadable(req, key) ==
    req.use_cache /\ enable_cache /\ req.method = "GET" /\ key \in DOMAIN cache

\* Mutants of CacheWritable: the method is not looked at; use_cache is not.
CacheWritableAnyMethod(req) == req.use_cache /\ enable_cache
CacheWritableAnyCall(req) == enable_cache /\ req.method = "GET"

\* line 111: the condition under which a 200 response is stored
CacheWritable(req) == req.use_cache /\ enable_cache /\ req.method = "GET"

\* Mutant of StoreEntry: the cache holds the newest entry only.
StoreEntryAlone(key, data) == key :> [data |-> data, timestamp |-> now]

\* Mutant of StoreEntry: an entry already stored for the key is kept.
StoreEntryKeepFirst(key, data) ==
    cache @@ (key :> [data |-> data, timestamp |-> now])

\* lines 112-115: self._cache[cache_key] = {'data': result, 'timestamp': time.time()}
StoreEntry(key, data) ==
    (key :> [data |-> data, timestamp |-> now]) @@ cache

(***************************************************************************)
(* The retry policy.                                                       *)
(***************************************************************************)
TransientStatuses == {429, 500, 502, 503, 504}

\* Mutant of IsTransient: every error status is retried.
IsTransientOrClientError(status) == status >= 400

IsTransient(status) == status \in TransientStatuses

\* Mutant of InRange: the loop runs max_retries times.
InRangeExclusive(attempt) == attempt < max_retries

\* for attempt in range(self.max_retries + 1)
InRange(attempt) == attempt < max_retries + 1

\* Mutant of NextAttempt: the loop variable is not advanced.
StuckAttempt(attempt) == attempt

\* the loop variable of the next iteration
\* Mutant of NextAttempt: one counter serves all the calls in flight.
NextAttemptShared(attempt) ==
    attempt + Cardinality({ c \in DOMAIN calls : calls[c].pc \in {"attempt", "sleep"} })

NextAttempt(attempt) == attempt + 1

\* Mutant of MayRetry: one retry too many is granted.
MayRetryInclusive(attempt) == attempt <= max_retries

\* if attempt < self.max_retries
\* Mutant of MayRetry: a retryable outcome is always followed by a sleep.
MayRetryAlways(attempt) == TRUE

MayRetry(attempt) == attempt < max_retries

\* Mutants of Delay: a product instead of a power, and no backoff at all.
DelayTimes(attempt) == 2 * attempt
DelayConstant(attempt) == 1

\* delay = 2 ** attempt
Delay(attempt) == 2 ^ attempt

(***************************************************************************)
(* Decoding and exceptions of the two transport libraries.                 *)
(***************************************************************************)
Decoded(body) == [ok |-> TRUE, exc |-> "", value |-> [type |-> body.text, fields |-> body.fields]]
DecodeFails(exc) == [ok |-> FALSE, exc |-> exc, value |-> [type |-> "none", fields |-> <<>>]]

\* requests: Response.json() parses the text whatever the content type
requests_json(body) ==
    IF body.text = "bad" THEN DecodeFails("requests.JSONDecodeError") ELSE Decoded(body)

\* aiohttp: ClientResponse.json() checks the content type, then parses
aiohttp_json(body) ==
    IF body.ctype # "json" THEN DecodeFails("aiohttp.ContentTypeError")
    ELSE IF body.text = "bad" THEN DecodeFails("json.JSONDecodeError")
    ELSE Decoded(body)

\* what session.request raises for a transport failure
requests_raises(o) ==
    IF o.kind = "timeout" THEN "requests.Timeout" ELSE "requests.ConnectionError"
aiohttp_raises(o) ==
    IF o.kind = "timeout" THEN "asyncio.TimeoutError" ELSE "aiohttp.ClientConnectorError"

IsRequestException(exc) ==
    exc \in {"requests.Timeout", "requests.ConnectionError", "requests.JSONDecodeError"}
IsJSONDecodeError(exc) == exc \in {"requests.JSONDecodeError", "json.JSONDecodeError"}
IsClientError(exc) == exc \in {"aiohttp.ClientConnectorError", "aiohttp.ContentTypeError"}
IsContentTypeError(exc) == exc = "aiohttp.ContentTypeError"

(***************************************************************************)
(* One pass through the body of the attempt loop.                          *)
(***************************************************************************)
Step(next, delay, result, store) ==
    [next |-> next, delay |-> delay, result |-> result, store |-> store]

Get(d, k, default) == IF k \in DOMAIN d THEN d[k] ELSE default
GetOpt(d, k) == IF k \in DOMAIN d THEN Some(d[k]) ELSE None

\* Mutant of OnTransportError: when the retries are used up the failure is
\* swallowed and an empty payload returned.
OnTransportErrorSwallowed(attempt, exc) ==
    IF MayRetry(attempt)
    THEN Step("retry", Delay(attempt), NoResult, FALSE)
    ELSE Step("return", 0, Ok([type |-> "object", fields |-> <<>>]), FALSE)

\* Mutant of OnTransportError: the backoff after a transport failure does not
\* grow with the attempts the call has made.
OnTransportErrorFlatDelay(attempt, exc) ==
    IF MayRetry(attempt)
    THEN Step("retry", Delay(0), NoResult, FALSE)
    ELSE Step("raise", 0,
              FortitudeAPIError(<<"Request failed: ", exc>>, None, None, None, None), FALSE)

\* the except clause of the loop: retry with backoff, or give up
OnTransportError(attempt, exc) ==
    IF MayRetry(attempt)
    THEN Step("retry", Delay(attempt), NoResult, FALSE)
    ELSE Step("raise", 0,
              FortitudeAPIError(<<"Request failed: ", exc>>, None, None, None, None), FALSE)

\* Mutant of ErrorFromBody: the code and the request id are read under other keys.
ErrorFromBodyWrongKeys(status, value) ==
    IF value.type # "object" THEN Raised("AttributeError")
    ELSE FortitudeAPIError(<<Get(value.fields, "message", "Unknown error")>>,
                           GetOpt(value.fields, "code"), Some(status),
                           GetOpt(value.fields, "id"),
                           GetOpt(value.fields, "details"))

\* Mutant of ErrorFromBody: a body without message gives an empty message.
ErrorFromBodyNoDefault(status, value) ==
    IF value.type # "object" THEN Raised("AttributeError")
    ELSE FortitudeAPIError(<<Get(value.fields, "message", "")>>,
                           GetOpt(value.fields, "error_code"), Some(status),
                           GetOpt(value.fields, "request_id"),
                           GetOpt(value.fields, "details"))

\* raise FortitudeAPIError(message=error_data.get('message', 'Unknown error'), ...)
ErrorFromBody(status, value) ==
    IF value.type # "object" THEN Raised("AttributeError")
    ELSE FortitudeAPIError(<<Get(value.fields, "message", "Unknown error")>>,
                           GetOpt(value.fields, "error_code"), Some(status),
                           GetOpt(value.fields, "request_id"),
                           GetOpt(value.fields, "details"))

\* raise FortitudeAPIError(message=f"HTTP {status}: {text}", status_code=status)
ErrorFromText(status, body) ==
    FortitudeAPIError(<<"HTTP ", ToString(status), ": ", body.raw>>,
                      None, Some(status), None, None)

\* FortitudeClient._make_request, the body of the for loop
sync_attempt(req, o, attempt) ==
    IF o.kind # "response"
    THEN (IF IsRequestException(requests_raises(o))
          THEN OnTransportError(attempt, requests_raises(o))
          ELSE Step("raise", 0, Raised(requests_raises(o)), FALSE))
    ELSE LET d == requests_json(o.body) IN
         IF o.status = 200
         THEN (IF d.ok THEN Step("return", 0, Ok(d.value), CacheWritable(req))
               ELSE IF IsRequestException(d.exc) THEN OnTransportError(attempt, d.exc)
               ELSE Step("raise", 0, Raised(d.exc), FALSE))
         ELSE IF IsTransient(o.status) /\ MayRetry(attempt)
         THEN Step("retry", Delay(attempt), NoResult, FALSE)
         ELSE IF d.ok THEN Step("raise", 0, ErrorFromBody(o.status, d.value), FALSE)
         ELSE IF IsJSONDecodeError(d.exc)
         THEN Step("raise", 0, ErrorFromText(o.status, o.body), FALSE)
         ELSE IF IsRequestException(d.exc) THEN OnTransportError(attempt, d.exc)
         ELSE Step("raise", 0, Raised(d.exc), FALSE)

\* AsyncFortitudeClient._make_request, the body of the for loop
async_attempt(req, o, attempt) ==
    IF o.kind # "response"
    THEN (IF IsClientError(aiohttp_raises(o))
          THEN OnTransportError(attempt, aiohttp_raises(o))
          ELSE Step("raise", 0, Raised(aiohttp_raises(o)), FALSE))
    ELSE LET d == aiohttp_json(o.body) IN
         IF o.status = 200
         THEN (IF d.ok THEN Step("return", 0, Ok(d.value), CacheWritable(req))
               ELSE IF IsClientError(d.exc) THEN OnTransportError(attempt, d.exc)
               ELSE Step("raise", 0, Raised(d.exc), FALSE))
         ELSE IF IsTransient(o.status) /\ MayRetry(attempt)
         THEN Step("retry", Delay(attempt), NoResult, FALSE)
         ELSE IF d.ok THEN Step("raise", 0, ErrorFromBody(o.status, d.value), FALSE)
         ELSE IF IsContentTypeError(d.exc)
         THEN Step("raise", 0, ErrorFromText(o.status, o.body), FALSE)
         ELSE IF IsClientError(d.exc) THEN OnTransportError(attempt, d.exc)
         ELSE Step("raise", 0, Raised(d.exc), FALSE)

attempt_step(req, o, attempt) ==
    IF variant = "blocking" THEN sync_attempt(req, o, attempt)
    ELSE async_attempt(req, o, attempt)

(***************************************************************************)
(* Construction: the resolution of the configuration.                      *)
(***************************************************************************)
\* Python truth of an optional str and of an optional int: None, "" and 0
\* are false
TruthyStr(x) == x # None /\ x[1] # ""
TruthyInt(x) == x # None /\ x[1] # 0

\* x or y, of optional strs
Or(x, y) == IF TruthyStr(x) THEN x ELSE y

\* int(text) of the texts the environment holds in this model
IsNumeral(text) == text \in {"0", "1", "2", "3", "10", "30"}
IntOf(text) ==
    CASE text = "0" -> 0 [] text = "1" -> 1 [] text = "2" -> 2
      [] text = "3" -> 3 [] text = "10" -> 10 [] text = "30" -> 30

\* os.getenv(name, default)
Getenv(value, default) == IF value = None THEN default ELSE value[1]

\* Mutant of ResolveApiKey: a built-in key stands in for a missing one.
ResolveApiKeyWithDefault(arg, env) == Or(Or(arg, env), Some("test-key"))

\* line 62: api_key or os.getenv('FORTITUDE_API_KEY')
ResolveApiKey(arg, env) == Or(arg, env)

\* lines 64, 65: value or int(os.getenv(NAME, default))
NeedsEnv(arg) == ~TruthyInt(arg)
ResolveInt(arg, env, default) ==
    IF TruthyInt(arg) THEN arg[1] ELSE IntOf(Getenv(env, default))

\* the arguments of __init__ and the environment variables it reads
CtorArgs(api_key, timeout, retries, enable, ttl) ==
    [api_key |-> api_key, timeout |-> timeout, max_retries |-> retries,
     enable_cache |-> enable, cache_ttl |-> ttl]
CtorEnv(api_key, timeout, retries) ==
    [api_key |-> api_key, timeout |-> timeout, max_retries |-> retries]

\* the outcome of __init__: the exception it raises, if any
CtorRaises(args, env) ==
    IF NeedsEnv(args.timeout) /\ ~IsNumeral(Getenv(env.timeout, "30")) THEN Some("ValueError")
    ELSE IF NeedsEnv(args.max_retries) /\ ~IsNumeral(Getenv(env.max_retries, "3"))
    THEN Some("ValueError")
    ELSE IF ~TruthyStr(ResolveApiKey(args.api_key, env.api_key)) THEN Some("ValueError")
    ELSE None

Client(state, args, env, api_key, timeout, error) ==
    [state |-> state, args |-> args, env |-> env, api_key |-> api_key,
     timeout |-> timeout, error |-> error, scope |-> 0, ops |-> 0]

\* a client as the calls of the request engine find it: constructed, its
\* session open
ReadyClient ==
    Client("ready", CtorArgs(Some("key"), None, None, FALSE, DefaultCacheTtl),
           CtorEnv(None, None, None), Some("key"), 30, None)

(***************************************************************************)
(* The phase validator: the project it inspects and its checks.            *)
(***************************************************************************)
\* What is at a path of the project: a text file with the keywords its text
\* holds and whether the text is longer than 500 characters, a file whose
\* bytes do not decode as text, a directory with entries, an empty directory.
\* The kinds are "file", "binary", "dir" and "emptydir".
TextFile(words, long) == [kind |-> "file", words |-> words, long |-> long]
Other(kind) == [kind |-> kind, words |-> {}, long |-> FALSE]

\* the paths a project of this model may hold, and what is usually at each
SampleFiles ==
    { "README.md", "docs/architecture.md", "docs/sprint-plan.md", "docs/approvals.md",
      "docs/phase-2-signoff.md", "docs/backlog.md", "Cargo.toml", "src", "tests",
      "target/criterion", "docs/api.md", "docs/security.md", "docs/user-acceptance.md" }
At(path) ==
    CASE path = "README.md" -> TextFile({"requirements"}, FALSE)
      [] path = "docs/architecture.md" -> TextFile({"architecture", "risk"}, FALSE)
      [] path = "docs/sprint-plan.md" ->
            TextFile({"sprint", "plan", "effort", "timeline"}, FALSE)
      [] path = "docs/approvals.md" -> TextFile({"approved"}, FALSE)
      [] path = "docs/phase-2-signoff.md" -> TextFile({"signoff"}, FALSE)
      [] path = "docs/backlog.md" -> TextFile({"priority"}, FALSE)
      [] path = "Cargo.toml" -> TextFile({}, FALSE)
      [] path = "docs/api.md" -> TextFile({}, TRUE)
      [] path = "docs/security.md" -> TextFile({}, FALSE)
      [] path = "docs/user-acceptance.md" -> TextFile({"accepted"}, FALSE)
      [] OTHER -> Other("dir")

\* what may be at a path instead: a directory named README.md, an api.md that
\* is not text, a src without entries, a regular file named tests
\* The projects hold any of the sample paths, at most one of them odd.
Projects ==
    { [path \in present |-> At(path)] : present \in SUBSET SampleFiles }
    \cup UNION { { [path \in present |-> IF path = odd[1] THEN odd[2] ELSE At(path)] :
                     present \in { S \in SUBSET SampleFiles : odd[1] \in S } } :
                 odd \in { <<"README.md", Other("emptydir")>>,
                           <<"docs/api.md", Other("binary")>>,
                           <<"src", Other("emptydir")>>,
                           <<"tests", TextFile({}, FALSE)>> } }

\* A check returns True or False, or raises: the name of the exception.
IsException(outcome) == outcome \notin {"True", "False"}

\* full_path.read_text() raises on a directory and on bytes that do not decode
read_text_raises(project, path) ==
    CASE project[path].kind = "file" -> "False"
      [] project[path].kind = "binary" -> "UnicodeDecodeError"
      [] OTHER -> "IsADirectoryError"

\* any(path.iterdir()) raises on a path that is not a directory
any_iterdir(project, path) ==
    CASE project[path].kind = "dir" -> "True"
      [] project[path].kind = "emptydir" -> "False"
      [] OTHER -> "NotADirectoryError"

\* the loop over candidate files: the first that exists is read, and if its
\* text holds a keyword the check returns True
RECURSIVE HasKeyword(_, _, _)
HasKeyword(project, paths, keywords) ==
    IF paths = <<>> THEN "False"
    ELSE IF Head(paths) \notin DOMAIN project THEN HasKeyword(project, Tail(paths), keywords)
    ELSE IF IsException(read_text_raises(project, Head(paths)))
    THEN read_text_raises(project, Head(paths))
    ELSE IF project[Head(paths)].words \cap keywords # {} THEN "True"
    ELSE HasKeyword(project, Tail(paths), keywords)

\* path.exists() and any(path.iterdir())
HasEntries(project, path) ==
    IF path \in DOMAIN project THEN any_iterdir(project, path) ELSE "False"

\* the loop over candidate directories: the first with entries returns True
RECURSIVE AnyHasEntries(_, _)
AnyHasEntries(project, dirs) ==
    IF dirs = <<>> THEN "False"
    ELSE IF HasEntries(project, Head(dirs)) = "False"
    THEN AnyHasEntries(project, Tail(dirs))
    ELSE HasEntries(project, Head(dirs))

check_business_requirements(project) ==
    HasKeyword(project, <<"docs/requirements.md", "docs/business-requirements.md", "README.md">>,
               {"business", "requirements", "success metrics", "target users"})

check_architecture_approval(project) ==
    HasKeyword(project, <<"docs/architecture.md", "docs/design.md", "docs/system-design.md">>,
               {"approved", "architecture", "system design", "approved by"})

check_roadmap_creation(project) ==
    HasKeyword(project, <<"docs/roadmap.md", "docs/features.md", "docs/sprint-plan.md">>,
               {"roadmap", "features", "sprint", "milestone"})

check_risk_assessment(project) ==
    HasKeyword(project, <<"docs/risks.md", "docs/risk-assessment.md", "docs/architecture.md">>,
               {"risk", "mitigation", "threat", "vulnerability"})

\* phase is "phase-1" or "phase-2"; the first two paths are f-strings
check_human_signoff(project, phase) ==
    HasKeyword(project,
               << IF phase = "phase-1" THEN "docs/phase-1-signoff.md"
                  ELSE "docs/phase-2-signoff.md",
                  IF phase = "phase-1" THEN "docs/phase-1-approval.md"
                  ELSE "docs/phase-2-approval.md",
                  "docs/approvals.md" >>,
               {"approved", "signoff", "sign-off", "authorized"})

check_feature_selection(project) ==
    HasKeyword(project, <<"docs/sprint-features.md", "docs/backlog.md", "docs/features.md">>,
               {"selected", "sprint", "features", "priority"})

check_implementation_plan(project) ==
    HasKeyword(project,
               <<"docs/implementation-plan.md", "docs/sprint-plan.md",
                 "docs/development-plan.md">>,
               {"implementation", "plan", "tasks", "timeline"})

check_complexity_assessment(project) ==
    HasKeyword(project,
               <<"docs/complexity-assessment.md", "docs/effort-estimation.md",
                 "docs/sprint-plan.md">>,
               {"complexity", "effort", "estimation", "hours"})

check_dependencies(project) ==
    IF \E path \in {"Cargo.toml", "package.json", "requirements.txt",
                    "docs/dependencies.md"} : path \in DOMAIN project
    THEN "True" ELSE "False"

check_timeline_approval(project) ==
    HasKeyword(project, <<"docs/timeline.md", "docs/sprint-plan.md", "docs/schedule.md">>,
               {"approved", "timeline", "schedule", "deadline"})

check_code_implementation(project) ==
    AnyHasEntries(project, <<"src", "lib", "app">>)

check_comprehensive_testing(project) ==
    IF AnyHasEntries(project, <<"tests", "test">>) = "False"
    THEN HasKeyword(project, <<"src/lib.rs", "src/main.rs">>, {"#[test]", "#[cfg(test)]"})
    ELSE AnyHasEntries(project, <<"tests", "test">>)

\* the git call is inside try/except: it adds a way to pass and cannot raise
check_quality_gates(project, git) ==
    IF \/ \E path \in {"target/quality-report.json", "target/coverage/cobertura.xml",
                       "target/criterion"} : path \in DOMAIN project
       \/ "quality" \in git
    THEN "True" ELSE "False"

\* the loop over documentation paths: a file longer than 500 characters, or a
\* directory with entries
RECURSIVE HasDocumentation(_, _)
HasDocumentation(project, paths) ==
    IF paths = <<>> THEN "False"
    ELSE IF Head(paths) \notin DOMAIN project THEN HasDocumentation(project, Tail(paths))
    ELSE IF project[Head(paths)].kind \in {"file", "binary"}
    THEN IF IsException(read_text_raises(project, Head(paths)))
         THEN read_text_raises(project, Head(paths))
         ELSE IF project[Head(paths)].long THEN "True"
         ELSE HasDocumentation(project, Tail(paths))
    ELSE IF any_iterdir(project, Head(paths)) = "True" THEN "True"
    ELSE HasDocumentation(project, Tail(paths))

check_documentation(project) ==
    HasDocumentation(project, <<"README.md", "docs/api.md", "docs/usage.md", "target/doc">>)

check_security_validation(project, git) ==
    IF \/ "security" \in git
       \/ \E path \in {"docs/security.md", "security-report.json", "audit-report.json"} :
             path \in DOMAIN project
    THEN "True" ELSE "False"

check_performance_testing(project) ==
    IF HasEntries(project, "benches") # "False" THEN HasEntries(project, "benches")
    ELSE IF \E path \in {"docs/performance.md", "performance-report.json",
                         "target/criterion"} : path \in DOMAIN project
    THEN "True" ELSE "False"

check_human_business_validation(project) ==
    HasKeyword(project,
               <<"docs/business-validation.md", "docs/feature-validation.md",
                 "docs/user-acceptance.md">>,
               {"validated", "approved", "tested", "accepted"})

\* all(checks.values())
all(checks) == \A k \in DOMAIN checks : checks[k]

\* The dict literal `checks = {...}` calls the checks in order: the first that
\* raises ends the evaluation, otherwise the dict of their values is built.
Checked(names, outcomes) ==
    IF \E i \in 1..Len(outcomes) : IsException(outcomes[i])
    THEN Raised(outcomes[CHOOSE i \in 1..Len(outcomes) :
                            /\ IsException(outcomes[i])
                            /\ \A j \in 1..(i - 1) : ~IsException(outcomes[j])])
    ELSE Ok([k \in { names[i] : i \in 1..Len(names) } |->
               \E i \in 1..Len(names) : names[i] = k /\ outcomes[i] = "True"])

validate_phase_1(project, git) ==
    LET c ==
          Checked(<<"business_requirements", "architecture_approved", "roadmap_created",
                    "risk_assessment", "human_signoff">>,
                  <<check_business_requirements(project), check_architecture_approval(project),
                    check_roadmap_creation(project), check_risk_assessment(project),
                    check_human_signoff(project, "phase-1")>>)
    IN IF c.kind = "raised" THEN c
       ELSE Ok([phase |-> "Phase 1: Strategic Planning", status |-> IF all(c.data) THEN "PASSED" ELSE "FAILED",
                checks |-> c.data, required_for_phase_2 |-> all(c.data)])

\* Mutant of validate_phase_2: phase 2 passes only if phase 1 allows it.
validate_phase_2_gated(project, git) ==
    LET c ==
          Checked(<<"features_selected", "implementation_plan", "complexity_assessed",
                    "dependencies_identified", "timeline_approved", "human_signoff">>,
                  <<check_feature_selection(project), check_implementation_plan(project),
                    check_complexity_assessment(project), check_dependencies(project),
                    check_timeline_approval(project), check_human_signoff(project, "phase-2")>>)
        first == validate_phase_1(project, git)
    IN IF c.kind = "raised" THEN c
       ELSE LET allowed == all(c.data) /\ first.kind = "ok" /\ first.data.required_for_phase_2
            IN Ok([phase |-> "Phase 2: Sprint Planning", status |-> IF allowed THEN "PASSED" ELSE "FAILED",
                   checks |-> c.data, required_for_phase_3 |-> allowed])

validate_phase_2(project, git) ==
    LET c ==
          Checked(<<"features_selected", "implementation_plan", "complexity_assessed",
                    "dependencies_identified", "timeline_approved", "human_signoff">>,
                  <<check_feature_selection(project), check_implementation_plan(project),
                    check_complexity_assessment(project), check_dependencies(project),
                    check_timeline_approval(project), check_human_signoff(project, "phase-2")>>)
    IN IF c.kind = "raised" THEN c
       ELSE Ok([phase |-> "Phase 2: Sprint Planning", status |-> IF all(c.data) THEN "PASSED" ELSE "FAILED",
                checks |-> c.data, required_for_phase_3 |-> all(c.data)])

validate_phase_3(project, git) ==
    LET c ==
          Checked(<<"code_implemented", "tests_comprehensive", "quality_gates_passed",
                    "documentation_complete", "security_validated", "performance_tested",
                    "human_validation">>,
                  <<check_code_implementation(project), check_comprehensive_testing(project),
                    check_quality_gates(project, git), check_documentation(project),
                    check_security_validation(project, git), check_performance_testing(project),
                    check_human_business_validation(project)>>)
    IN IF c.kind = "raised" THEN c
       ELSE Ok([phase |-> "Phase 3: Implementation", status |-> IF all(c.data) THEN "PASSED" ELSE "FAILED",
                checks |-> c.data, ready_for_production |-> all(c.data)])

\* --output: "report.json" can be opened for writing; the directory of
\* "out/report.json" does not exist
Writable(path) == path = "report.json"

\* the command lines: --phase absent, one of the choices or a value that is
\* not a choice, without --output, and two with it
ArgSamples ==
    { [phase |-> phase, output |-> None] :
        phase \in {None, Some("1"), Some("2"), Some("3"), Some("4")} }
    \cup { [phase |-> None, output |-> Some("out/report.json")],
           [phase |-> Some("2"), output |-> Some("report.json")] }

\* the if/elif chain of generate_report: the phases to validate, in order
Selected(phase) ==
    IF phase = Some("1") THEN <<1>>
    ELSE IF phase = Some("2") THEN <<2>>
    ELSE IF phase = Some("3") THEN <<3>>
    ELSE <<1, 2, 3>>

PhaseKey(n) == CASE n = 1 -> "phase_1" [] n = 2 -> "phase_2" [] n = 3 -> "phase_3"

ValidatePhaseResult(n, project, git) ==
    CASE n = 1 -> validate_phase_1(project, git)
      [] n = 2 -> validate_phase_2(project, git)
      [] n = 3 -> validate_phase_3(project, git)

\* sys.exit(1 if failed_phases else 0)
ExitStatus(results) ==
    IF \E key \in DOMAIN results : results[key].status = "FAILED" THEN 1 ELSE 0

Validator(pc, project, git, args) ==
    [pc |-> pc, project |-> project, git |-> git, phase |-> args.phase,
     output |-> args.output, results |-> <<>>, done |-> 0, exit |-> None, raised |-> None]

\* the validator is not run
NoValidator == Validator("off", <<>>, {}, [phase |-> None, output |-> None])

(***************************************************************************)
(* The state machine.                                                      *)
(***************************************************************************)
NoRequest == [method |-> "", endpoint |-> "", params |-> None, use_cache |-> FALSE]

IdleCall ==
    [pc |-> "idle", req |-> NoRequest, key |-> <<>>, attempt |-> 0, attempts |-> 0,
     delays |-> <<>>, hist |-> <<>>, last |-> Failure("none"), result |-> NoResult,
     wake |-> 0]

Init ==
    /\ variant \in {"blocking", "async"}
    /\ max_retries \in 0..MaxRetries
    /\ enable_cache \in BOOLEAN
    /\ cache_ttl \in (IF enable_cache THEN TtlSamples ELSE {DefaultCacheTtl})
    /\ cache = <<>>
    /\ now = 0
    /\ calls = [c \in CallIds |-> IdleCall]
    /\ ncalls = 0
    /\ served = <<>>
    /\ client = ReadyClient
    /\ session = Some(1)
    /\ handles = <<0>>
    /\ validator = NoValidator

\* the statement after the loop: raise FortitudeAPIError("Max retries exceeded")
MaxRetriesExceeded ==
    FortitudeAPIError(<<"Max retries exceeded">>, None, None, None, None)

\* aiohttp refuses a request on a session that was closed; a closed
\* requests.Session goes on serving requests
SessionClosed == variant = "async" /\ session # None /\ handles[session[1]] > 0

\* A caller enters _make_request: the key is computed and the cache consulted;
\* on a miss the call goes on to its first attempt.
Begin(c, req) ==
    /\ client.state = "ready"
    /\ calls[c].pc \in {"idle", "done"}
    /\ ncalls < MaxCalls
    /\ ncalls' = ncalls + 1
    /\ LET key == cache_key(req)
           fresh == [IdleCall EXCEPT !.req = req, !.key = key]
       IN calls' = [calls EXCEPT ![c] =
            IF variant = "async" /\ session = None
            THEN [fresh EXCEPT !.pc = "done", !.result = Raised("RuntimeError")]
            ELSE IF CacheReadable(req, key) /\ IsFresh(cache[key])
            THEN [fresh EXCEPT !.pc = "done", !.result = Ok(cache[key].data)]
            ELSE IF InRange(0)
            THEN [fresh EXCEPT !.pc = "attempt"]
            ELSE [fresh EXCEPT !.pc = "done", !.result = MaxRetriesExceeded]]
    /\ UNCHANGED <<variant, max_retries, enable_cache, cache_ttl, cache, now, served,
                   client, session, handles, validator>>

\* One transport attempt of the call completes with outcome o and is handled
\* up to the return, the raise or the start of the backoff sleep.
Attempt(c, o) ==
    /\ calls[c].pc = "attempt"
    /\ ~SessionClosed
    /\ LET call == calls[c]
           s == attempt_step(call.req, o, call.attempt)
           seen == [call EXCEPT !.attempts = @ + 1, !.hist = Append(@, Tag(o)), !.last = o]
       IN /\ calls' = [calls EXCEPT ![c] =
                CASE s.next = "retry" ->
                        [seen EXCEPT !.pc = "sleep", !.delays = Append(@, s.delay),
                                     !.wake = now + s.delay]
                  [] OTHER -> [seen EXCEPT !.pc = "done", !.result = s.result]]
          /\ cache' = IF s.next = "return" /\ s.store
                      THEN StoreEntry(call.key, s.result.data)
                      ELSE cache
          /\ served' = IF /\ s.next = "return"
                          /\ call.req.method = "GET" /\ call.req.use_cache /\ enable_cache
                       THEN (call.key :> [data |-> s.result.data, timestamp |-> now]) @@ served
                       ELSE served
    /\ UNCHANGED <<variant, max_retries, enable_cache, cache_ttl, now, ncalls,
                   client, session, handles, validator>>

\* Mutant of Continue: the sleep does not return.
ContinueAsleep(call) == call

\* Mutant of Continue: the cache is looked up again before each retry.
ContinueLookingUp(call) ==
    IF CacheReadable(call.req, call.key) /\ IsFresh(cache[call.key])
    THEN [call EXCEPT !.pc = "done", !.result = Ok(cache[call.key].data)]
    ELSE IF InRange(NextAttempt(call.attempt))
    THEN [call EXCEPT !.pc = "attempt", !.attempt = NextAttempt(@)]
    ELSE [call EXCEPT !.pc = "done", !.result = MaxRetriesExceeded]

\* `continue`: the next iteration of the loop, or the statement after it
Continue(call) ==
    IF InRange(NextAttempt(call.attempt))
    THEN [call EXCEPT !.pc = "attempt", !.attempt = NextAttempt(@)]
    ELSE [call EXCEPT !.pc = "done", !.result = MaxRetriesExceeded]

\* The backoff sleep ends and the loop moves to its next iteration.
Wake(c) ==
    /\ calls[c].pc = "sleep"
    /\ now >= calls[c].wake
    /\ calls' = [calls EXCEPT ![c] = Continue(calls[c])]
    /\ UNCHANGED <<variant, max_retries, enable_cache, cache_ttl, cache, now, ncalls, served,
                   client, session, handles, validator>>

\* Time passes.
Tick ==
    /\ now < MaxTime
    /\ now' = now + 1
    /\ UNCHANGED <<variant, max_retries, enable_cache, cache_ttl, cache, calls, ncalls, served,
                   client, session, handles, validator>>

Next ==
    \/ \E c \in CallIds, req \in Requests : Begin(c, req)
    \/ \E c \in CallIds, o \in Outcomes : Attempt(c, o)
    \/ \E c \in CallIds : Wake(c)
    \/ Tick

Spec == Init /\ [][Next]_vars

(***************************************************************************)
(* A run of the phase validator.                                           *)
(***************************************************************************)
InitPhase ==
    /\ variant = "blocking"
    /\ max_retries = 0
    /\ enable_cache = FALSE
    /\ cache_ttl = DefaultCacheTtl
    /\ cache = <<>>
    /\ now = 0
    /\ calls = [c \in CallIds |-> IdleCall]
    /\ ncalls = 0
    /\ served = <<>>
    /\ client = ReadyClient
    /\ session = Some(1)
    /\ handles = <<0>>
    \* git: what `git log` shows, commits naming quality, commits naming security
    /\ \E project \in Projects, git \in SUBSET {"quality", "security"},
          args \in ArgSamples :
          validator = Validator("start", project, git, args)

\* parser.parse_args(): a --phase outside the choices ends the process with
\* argparse's status 2
ParseArgs ==
    /\ validator.pc = "start"
    /\ validator' =
         IF validator.phase \in {None, Some("1"), Some("2"), Some("3")}
         THEN [validator EXCEPT !.pc = "report"]
         ELSE [validator EXCEPT !.pc = "exited", !.exit = Some(2)]
    /\ UNCHANGED <<variant, max_retries, enable_cache, cache_ttl, cache, now, calls, ncalls,
                   served, client, session, handles>>

\* generate_report validates the next of the selected phases; a check that
\* raises ends the process with a traceback and status 1
ValidatePhase ==
    /\ validator.pc = "report"
    /\ validator.done < Len(Selected(validator.phase))
    /\ LET n == Selected(validator.phase)[validator.done + 1]
           r == ValidatePhaseResult(n, validator.project, validator.git)
       IN validator' =
            IF r.kind = "raised"
            THEN [validator EXCEPT !.pc = "exited", !.exit = Some(1),
                                   !.raised = Some(r.exc)]
            ELSE [validator EXCEPT !.results = (PhaseKey(n) :> r.data) @@ @,
                                   !.done = @ + 1]
    /\ UNCHANGED <<variant, max_retries, enable_cache, cache_ttl, cache, now, calls, ncalls,
                   served, client, session, handles>>

\* main, after the report: the report is written if --output is given, then
\* the exit status follows the statuses
SysExit ==
    /\ validator.pc = "report"
    /\ validator.done = Len(Selected(validator.phase))
    /\ validator' =
         IF validator.output # None /\ ~Writable(validator.output[1])
         THEN [validator EXCEPT !.pc = "exited", !.exit = Some(1),
                                !.raised = Some("FileNotFoundError")]
         ELSE [validator EXCEPT !.pc = "exited",
                                !.exit = Some(ExitStatus(validator.results))]
    /\ UNCHANGED <<variant, max_retries, enable_cache, cache_ttl, cache, now, calls, ncalls,
                   served, client, session, handles>>

NextPhase ==
    \/ ParseArgs
    \/ ValidatePhase
    \/ SysExit

SpecPhase == InitPhase /\ [][NextPhase]_vars

(***************************************************************************)
(* Construction and teardown of one client, with one caller.               *)
(***************************************************************************)
ApiKeyArgs == {None, Some("key")}
ApiKeyEnvs == {None, Some("envkey")}
TimeoutArgs == {None, Some(0), Some(5)}
TimeoutEnvs == {None, Some("10")}
RetriesArgs == {None, Some(0), Some(1)}
RetriesEnvs == {None, Some("2"), Some("many")}

LifeRequests == { Request("GET", "/api/v1/research", None, TRUE) }
LifeOutcomes == { Failure("connfail"), Response(200, BodyPayload1) }

\* no call of the caller is between its entry and its return
AllSettled == \A c \in DOMAIN calls : calls[c].pc \in {"idle", "done"}

\* Before __init__ runs: its arguments and the environment are chosen, no
\* attribute of the client is assigned yet.
InitLife ==
    /\ variant \in {"blocking", "async"}
    /\ \E k \in ApiKeyArgs, ke \in ApiKeyEnvs, t \in TimeoutArgs, te \in TimeoutEnvs,
          r \in RetriesArgs, re \in RetriesEnvs, e \in BOOLEAN :
          client = Client("pending", CtorArgs(k, t, r, e, DefaultCacheTtl),
                          CtorEnv(ke, te, re), None, 0, None)
    /\ max_retries = 0
    /\ enable_cache = FALSE
    /\ cache_ttl = DefaultCacheTtl
    /\ cache = <<>>
    /\ now = 0
    /\ calls = [c \in CallIds |-> IdleCall]
    /\ ncalls = 0
    /\ served = <<>>
    /\ session = None
    /\ handles = <<>>
    /\ validator = NoValidator

\* __init__ of either client
Construct ==
    /\ client.state = "pending"
    /\ LET args == client.args
           env == client.env
           err == CtorRaises(args, env)
       IN IF err # None
          THEN /\ client' = [client EXCEPT !.state = "failed", !.error = err]
               /\ UNCHANGED <<max_retries, enable_cache, cache_ttl, cache, session, handles>>
          ELSE /\ client' = [client EXCEPT
                                !.state = "ready",
                                !.api_key = ResolveApiKey(args.api_key, env.api_key),
                                !.timeout = ResolveInt(args.timeout, env.timeout, "30")]
               /\ max_retries' = ResolveInt(args.max_retries, env.max_retries, "3")
               /\ enable_cache' = args.enable_cache
               /\ cache_ttl' = args.cache_ttl
               /\ cache' = <<>>
               /\ session' = IF variant = "blocking" THEN Some(1) ELSE None
               /\ handles' = IF variant = "blocking" THEN <<0>> ELSE <<>>
    /\ UNCHANGED <<variant, now, calls, ncalls, served, validator>>

\* close() of the handle the client holds
CloseHeld == [handles EXCEPT ![session[1]] = @ + 1]

\* __enter__ / __aenter__
Enter ==
    /\ client.state = "ready"
    /\ client.ops < MaxLifeOps
    /\ AllSettled
    /\ client' = [client EXCEPT !.scope = @ + 1, !.ops = @ + 1]
    /\ IF variant = "async"
       THEN /\ handles' = Append(handles, 0)
            /\ session' = Some(Len(handles) + 1)
       ELSE UNCHANGED <<session, handles>>
    /\ UNCHANGED <<variant, max_retries, enable_cache, cache_ttl, cache, now, calls, ncalls,
                   served, validator>>

\* __exit__ / __aexit__, on a normal or an exceptional end of the scope
Exit ==
    /\ client.state = "ready"
    /\ client.scope > 0
    /\ client.ops < MaxLifeOps
    /\ AllSettled
    /\ client' = [client EXCEPT !.scope = @ - 1, !.ops = @ + 1]
    /\ handles' = IF session # None THEN CloseHeld ELSE handles
    /\ UNCHANGED <<variant, max_retries, enable_cache, cache_ttl, cache, now, calls, ncalls,
                   served, session, validator>>

\* FortitudeClient.close(), called by the program
Close ==
    /\ client.state = "ready"
    /\ variant = "blocking"
    /\ client.ops < MaxLifeOps
    /\ AllSettled
    /\ client' = [client EXCEPT !.ops = @ + 1]
    /\ handles' = CloseHeld
    /\ UNCHANGED <<variant, max_retries, enable_cache, cache_ttl, cache, now, calls, ncalls,
                   served, session, validator>>

\* An attempt of the async client on a session that was closed: aiohttp
\* raises RuntimeError before anything is sent.
AttemptOnClosed(c) ==
    /\ calls[c].pc = "attempt"
    /\ SessionClosed
    /\ calls' = [calls EXCEPT ![c] = [@ EXCEPT !.pc = "done", !.result = Raised("RuntimeError")]]
    /\ UNCHANGED <<variant, max_retries, enable_cache, cache_ttl, cache, now, ncalls, served,
                   client, session, handles, validator>>

NextLife ==
    \/ Construct
    \/ Enter
    \/ Exit
    \/ Close
    \/ \E c \in CallIds, req \in LifeRequests : Begin(c, req)
    \/ \E c \in CallIds, o \in LifeOutcomes : Attempt(c, o)
    \/ \E c \in CallIds : AttemptOnClosed(c)
    \/ \E c \in CallIds : Wake(c)
    \/ Tick

SpecLife == InitLife /\ [][NextLife]_vars

(***************************************************************************)
(* One caller, with every attempt returning and every sleep elapsing.      *)
(***************************************************************************)
LiveRetries == {0, 1, 2}

InitLive ==
    /\ variant \in {"blocking", "async"}
    /\ max_retries \in LiveRetries
    /\ enable_cache \in BOOLEAN
    /\ cache_ttl = DefaultCacheTtl
    /\ cache = <<>>
    /\ now = 0
    /\ calls = [c \in CallIds |-> IdleCall]
    /\ ncalls = 0
    /\ served = <<>>
    /\ client = ReadyClient
    /\ session = Some(1)
    /\ handles = <<0>>
    /\ validator = NoValidator

\* time.sleep(delay) / await asyncio.sleep(delay) returns: the clock has
\* reached the end of the delay, and the loop moves on
Sleep(c) ==
    /\ calls[c].pc = "sleep"
    /\ now' = IF now >= calls[c].wake THEN now ELSE calls[c].wake
    /\ calls' = [calls EXCEPT ![c] = Continue(calls[c])]
    /\ UNCHANGED <<variant, max_retries, enable_cache, cache_ttl, cache, ncalls, served,
                   client, session, handles, validator>>

NextLive ==
    \/ \E c \in CallIds, req \in Requests : Begin(c, req)
    \/ \E c \in CallIds, o \in Outcomes : Attempt(c, o)
    \/ \E c \in CallIds : Sleep(c)

\* each transport attempt eventually returns, each delay eventually elapses
Fairness ==
    \A c \in CallIds :
        /\ WF_vars(\E o \in Outcomes : Attempt(c, o))
        /\ WF_vars(Sleep(c))

SpecLive == InitLive /\ [][NextLive]_vars /\ Fairness

(***************************************************************************)
(* One caller meeting error responses with bodies of every shape.          *)
(***************************************************************************)
ErrorKeys == {"message", "error_code", "request_id", "details"}
ErrorValue(k) ==
    CASE k = "message" -> "m1" [] k = "error_code" -> "E1"
      [] k = "request_id" -> "r1" [] k = "details" -> "d1"

\* a JSON object holding the fields named in keys, and a JSON array
BodyErrorWith(keys) ==
    [ctype |-> "json", text |-> "object", fields |-> [k \in keys |-> ErrorValue(k)],
     raw |-> "{..}"]
BodyArray == [ctype |-> "json", text |-> "array", fields |-> <<>>, raw |-> "[]"]

ErrRetries == {0, 1}
ErrRequests == { Request("POST", "/api/v1/research", None, TRUE) }
ErrOutcomes ==
    { Response(s, BodyErrorWith(keys)) : s \in {400, 503}, keys \in SUBSET ErrorKeys }
    \cup { Response(404, BodyArray) }

InitErr ==
    /\ variant \in {"blocking", "async"}
    /\ max_retries \in ErrRetries
    /\ enable_cache = FALSE
    /\ cache_ttl = DefaultCacheTtl
    /\ cache = <<>>
    /\ now = 0
    /\ calls = [c \in CallIds |-> IdleCall]
    /\ ncalls = 0
    /\ served = <<>>
    /\ client = ReadyClient
    /\ session = Some(1)
    /\ handles = <<0>>
    /\ validator = NoValidator

NextErr ==
    \/ \E c \in CallIds, req \in ErrRequests : Begin(c, req)
    \/ \E c \in CallIds, o \in ErrOutcomes : Attempt(c, o)
    \/ \E c \in CallIds : Wake(c)
    \/ Tick

SpecErr == InitErr /\ [][NextErr]_vars

(***************************************************************************)
(* Two callers whose requests vary in method, endpoint, body and           *)
(* parameters.                                                             *)
(***************************************************************************)
ConcIds == {1, 2}

\* a request with a JSON body (the `data` argument)
RequestWithData(method, endpoint, data, params, use_cache) ==
    [method |-> method, endpoint |-> endpoint, params |-> params, use_cache |-> use_cache,
     data |-> data]

\* parameter dicts, as the sequence of their items in insertion order
KeyParams ==
    { None, Some(<<>>),
      Some(<<<<"offset", 0>>, <<"limit", 20>>>>),
      Some(<<<<"limit", 20>>, <<"offset", 0>>>>),
      Some(<<<<"limit", 20>>, <<"offset", 1>>>>),
      Some(<<<<"limit", 20>>>>),
      Some(<<<<"query", 20>>>>) }

KeyRequests ==
    { RequestWithData(m, e, d, p, TRUE) :
        m \in {"GET", "POST"}, e \in {"/api/v1/research", "/api/v1/classify"},
        d \in {None, Some("d1")}, p \in KeyParams }
KeyOutcomes == { Response(200, BodyPayload1) }

InitKey ==
    /\ variant \in {"blocking", "async"}
    /\ max_retries = 0
    /\ enable_cache = TRUE
    /\ cache_ttl = DefaultCacheTtl
    /\ cache = <<>>
    /\ now = 0
    /\ calls = [c \in ConcIds |-> IdleCall]
    /\ ncalls = 0
    /\ served = <<>>
    /\ client = ReadyClient
    /\ session = Some(1)
    /\ handles = <<0>>
    /\ validator = NoValidator

NextKey ==
    \/ \E c \in ConcIds, req \in KeyRequests : Begin(c, req)
    \/ \E c \in ConcIds, o \in KeyOutcomes : Attempt(c, o)

SpecKey == InitKey /\ [][NextKey]_vars

(***************************************************************************)
(* The public operations, called by two callers.                           *)
(***************************************************************************)
\* the operations of FortitudeClient, and those AsyncFortitudeClient has too
FacadeOps ==
    { "get_health", "get_protected_health", "research", "get_research_result",
      "list_research_results", "classify", "get_classification_result",
      "list_classification_results", "get_classification_types", "get_cache_stats",
      "search_cache", "get_cache_entry" }
AsyncFacadeOps == { "get_health", "research", "classify", "get_cache_stats" }
OpsOf(v) == IF v = "async" THEN AsyncFacadeOps ELSE FacadeOps

\* the default of the use_cache parameter of _make_request
DefaultUseCache == TRUE

\* Mutant of UseCacheArg: no operation passes use_cache.
UseCacheArgOmitted(op) == DefaultUseCache

\* the use_cache argument an operation delegates with
UseCacheArg(op) == IF op \in {"research", "classify"} THEN FALSE ELSE DefaultUseCache

\* the arguments of the operations: an id, and the defaults of the listings
SampleId == "id1"
PageParams == Some(<<<<"limit", 20>>, <<"offset", 0>>>>)
SearchParams == Some(<<<<"limit", 20>>, <<"offset", 0>>, <<"sort", "newest">>>>)

MethodOf(op) == IF op \in {"research", "classify"} THEN "POST" ELSE "GET"

EndpointOf(op) ==
    CASE op = "get_health" -> <<"/health">>
      [] op = "get_protected_health" -> <<"/api/v1/health/protected">>
      [] op = "research" -> <<"/api/v1/research">>
      [] op = "get_research_result" -> <<"/api/v1/research/", SampleId>>
      [] op = "list_research_results" -> <<"/api/v1/research">>
      [] op = "classify" -> <<"/api/v1/classify">>
      [] op = "get_classification_result" -> <<"/api/v1/classify/", SampleId>>
      [] op = "list_classification_results" -> <<"/api/v1/classify">>
      [] op = "get_classification_types" -> <<"/api/v1/classify/types">>
      [] op = "get_cache_stats" -> <<"/api/v1/cache/stats">>
      [] op = "search_cache" -> <<"/api/v1/cache/search">>
      [] op = "get_cache_entry" -> <<"/api/v1/cache/", SampleId>>

ParamsOf(op) ==
    CASE op \in {"list_research_results", "list_classification_results"} -> PageParams
      [] op = "search_cache" -> SearchParams
      [] OTHER -> None

DataOf(op) ==
    CASE op = "research" -> Some(<<<<"query", "q1">>, <<"priority", "medium">>>>)
      [] op = "classify" -> Some(<<<<"content", "c1">>>>)
      [] OTHER -> None

\* the _make_request call an operation makes
Delegate(op) ==
    RequestWithData(MethodOf(op), EndpointOf(op), DataOf(op), ParamsOf(op), UseCacheArg(op))

FacadeOutcomes == { Response(200, BodyPayload1), Response(404, BodyError) }

InitFacade ==
    /\ variant \in {"blocking", "async"}
    /\ max_retries = 0
    /\ enable_cache \in BOOLEAN
    /\ cache_ttl \in (IF enable_cache THEN TtlSamples ELSE {DefaultCacheTtl})
    /\ cache = <<>>
    /\ now = 0
    /\ calls = [c \in ConcIds |-> IdleCall]
    /\ ncalls = 0
    /\ served = <<>>
    /\ client = ReadyClient
    /\ session = Some(1)
    /\ handles = <<0>>
    /\ validator = NoValidator

\* a caller invokes a public operation
Call(c, op) == Begin(c, Delegate(op))

NextFacade ==
    \/ \E c \in ConcIds, op \in OpsOf(variant) : Call(c, op)
    \/ \E c \in ConcIds, o \in FacadeOutcomes : Attempt(c, o)
    \/ Tick

SpecFacade == InitFacade /\ [][NextFacade]_vars

(***************************************************************************)
(* Two callers sharing one client.                                         *)
(***************************************************************************)
ConcRetries == {0, 1}
ConcRequests ==
    { Request("GET", "/api/v1/research", None, TRUE),
      Request("GET", "/api/v1/research", Some(ParamsPage), TRUE) }
ConcOutcomes ==
    { Failure("connfail"), Response(200, BodyPayload1), Response(200, BodyPayload2),
      Response(404, BodyError) }

InitConc ==
    /\ variant \in {"blocking", "async"}
    /\ max_retries \in ConcRetries
    /\ enable_cache \in BOOLEAN
    /\ cache_ttl \in (IF enable_cache THEN TtlSamples ELSE {DefaultCacheTtl})
    /\ cache = <<>>
    /\ now = 0
    /\ calls = [c \in ConcIds |-> IdleCall]
    /\ ncalls = 0
    /\ served = <<>>
    /\ client = ReadyClient
    /\ session = Some(1)
    /\ handles = <<0>>
    /\ validator = NoValidator

NextConc ==
    \/ \E c \in ConcIds, req \in ConcRequests : Begin(c, req)
    \/ \E c \in ConcIds, o \in ConcOutcomes : Attempt(c, o)
    \/ \E c \in ConcIds : Wake(c)
    \/ Tick

SpecConc == InitConc /\ [][NextConc]_vars

(***************************************************************************)
(* Properties.                                                             *)
(***************************************************************************)
RECURSIVE SumSeq(_)
SumSeq(q) == IF q = <<>> THEN 0 ELSE Head(q) + SumSeq(Tail(q))

\* 1, 2, 4, 8, ...: the i-th term, by doubling
RECURSIVE Doubling(_)
Doubling(i) == IF i <= 1 THEN 1 ELSE 2 * Doubling(i - 1)

\* a call the specification counts as cacheable
IsCacheableCall(req) == req.method = "GET" /\ req.use_cache /\ enable_cache

IsError(result) == result.kind \in {"FortitudeAPIError", "raised"}

IsFailureTag(t) == t.kind \in {"connfail", "timeout"}
IsStatusTag(t, status) == t.kind = "response" /\ t.status = status

\* a body both transport libraries decode to a JSON object
IsObjectBody(body) == body.ctype = "json" /\ body.text = "object"
ObjectOf(body) == [type |-> "object", fields |-> body.fields]

\* C1: a call never performs more than max_retries + 1 transport attempts,
\* whatever the request and the outcomes of its attempts.
C1_AtMostMaxRetriesPlusOne ==
    \A c \in CallIds : calls[c].attempts <= max_retries + 1

\* C1 witness: a call that retried after both kinds of outcome has used all
\* of its max_retries + 1 attempts.
C1_Witness ==
    \E c \in CallIds :
        /\ calls[c].pc = "done" /\ max_retries = 2 /\ calls[c].attempts = 3
        /\ IsFailureTag(calls[c].hist[1]) /\ IsStatusTag(calls[c].hist[2], 503)

\* C2: a cacheable GET call issued while the last 200 payload returned to a
\* cacheable GET call with the same key is younger than the TTL returns that
\* payload at once, with no transport attempt.
C2_HitWithinTtl ==
    [][\A c \in CallIds, req \in Requests :
        (/\ Begin(c, req)
         /\ IsCacheableCall(req)
         /\ cache_key(req) \in DOMAIN served
         /\ now - served[cache_key(req)].timestamp < cache_ttl)
        => /\ calls'[c].pc = "done"
           /\ calls'[c].attempts = 0
           /\ calls'[c].result = Ok(served[cache_key(req)].data)]_vars

\* C2 witness: the second call was answered from the cache, without an attempt.
C2_Witness ==
    \E c \in CallIds :
        /\ ncalls = 2 /\ calls[c].pc = "done" /\ calls[c].attempts = 0
        /\ calls[c].result.kind = "ok"
        /\ calls[c].key \in DOMAIN served
        /\ calls[c].result.data = served[calls[c].key].data

\* C3: a cacheable GET call issued when the stored entry of its key is as old
\* as the TTL or older (the boundary included) goes to a transport attempt.
C3_ExpiredEntryIsAbsent ==
    [][\A c \in CallIds, req \in Requests :
        (/\ Begin(c, req)
         /\ IsCacheableCall(req)
         /\ cache_key(req) \in DOMAIN cache
         /\ now - cache[cache_key(req)].timestamp >= cache_ttl)
        => /\ calls'[c].pc = "attempt"
           /\ calls'[c].result = NoResult]_vars

\* C3 witness: a call that found an entry exactly TTL old is in its first attempt.
C3_Witness ==
    \E c \in CallIds :
        /\ calls[c].pc = "attempt" /\ calls[c].attempts = 0
        /\ IsCacheableCall(calls[c].req)
        /\ calls[c].key \in DOMAIN cache
        /\ now - cache[calls[c].key].timestamp = cache_ttl

\* C4: a call that is not cacheable (POST, use_cache false, or cache disabled)
\* never ends without a transport attempt.
C4_NonCacheablePerformsAttempt ==
    \A c \in CallIds :
        (calls[c].pc = "done" /\ ~IsCacheableCall(calls[c].req))
            => calls[c].attempts >= 1

\* C4 witness: a GET call with use_cache false has made an attempt although a
\* fresh entry for the same method, URL and parameters is stored.
C4_Witness ==
    \E c \in CallIds :
        /\ calls[c].pc = "done" /\ calls[c].attempts >= 1
        /\ calls[c].req.method = "GET" /\ ~calls[c].req.use_cache /\ enable_cache
        /\ calls[c].key \in DOMAIN cache
        /\ now - cache[calls[c].key].timestamp < cache_ttl

\* C5: a response whose status is neither 200 nor 429, 500, 502, 503, 504 ends
\* the call with an error: no delay follows it and no further attempt is made.
C5_TerminalStatusEndsCall ==
    \A c \in CallIds :
        (/\ calls[c].hist # <<>>
         /\ calls[c].last.kind = "response"
         /\ calls[c].last.status \notin {200, 429, 500, 502, 503, 504})
        => /\ calls[c].pc = "done"
           /\ IsError(calls[c].result)
           /\ calls[c].attempts = Len(calls[c].hist)
           /\ Len(calls[c].delays) = Len(calls[c].hist) - 1

\* C5 witness: a 201 response ended a call that could still have retried.
C5_Witness ==
    \E c \in CallIds :
        /\ calls[c].pc = "done" /\ max_retries >= 1 /\ calls[c].attempts = 1
        /\ calls[c].last = Response(201, BodyError)
        /\ IsError(calls[c].result)

\* C6 (as claimed): a call all of whose attempts fail at transport level
\* (connection failure or timeout) ends after exactly max_retries + 1 attempts
\* with a FortitudeAPIError.
C6_Claim ==
    \A c \in CallIds :
        (/\ calls[c].pc = "done"
         /\ calls[c].hist # <<>>
         /\ \A i \in 1..Len(calls[c].hist) : IsFailureTag(calls[c].hist[i]))
        => /\ calls[c].attempts = max_retries + 1
           /\ calls[c].result.kind = "FortitudeAPIError"

\* C7 (as claimed): once the first max_retries responses of a call are all 500,
\* the call ends in an error after exactly max_retries + 1 attempts.
C7_Claim ==
    \A c \in CallIds :
        (/\ calls[c].pc = "done"
         /\ max_retries >= 1
         /\ Len(calls[c].hist) >= max_retries
         /\ \A i \in 1..max_retries : IsStatusTag(calls[c].hist[i], 500))
        => /\ IsError(calls[c].result)
           /\ calls[c].attempts = max_retries + 1

\* C7 (amended): max_retries + 1 consecutive 500 responses end the call after
\* exactly max_retries + 1 attempts with an error; it is a FortitudeAPIError
\* with status code 500 unless the last body cannot be read at all, and it
\* carries the last body's fields when that body is a JSON object.  Fewer
\* 500 responses leave the call retrying.
C7_ExhaustedAfterMaxRetriesPlusOne ==
    \A c \in CallIds :
        LET call == calls[c] IN
        (call.hist # <<>> /\ \A i \in 1..Len(call.hist) : IsStatusTag(call.hist[i], 500))
        => IF Len(call.hist) = max_retries + 1
           THEN /\ call.pc = "done"
                /\ call.attempts = max_retries + 1
                /\ IsError(call.result)
                /\ call.result.kind = "FortitudeAPIError"
                      => call.result.status_code = Some(500)
                /\ IsObjectBody(call.last.body)
                      => /\ call.result.kind = "FortitudeAPIError"
                         /\ call.result.message = <<call.last.body.fields.message>>
           ELSE call.pc \in {"sleep", "attempt"}

\* C7 witness: three 500 responses have exhausted a call with max_retries = 2.
C7_Witness ==
    \E c \in CallIds :
        /\ calls[c].pc = "done" /\ max_retries = 2 /\ calls[c].attempts = 3
        /\ \A i \in 1..3 : IsStatusTag(calls[c].hist[i], 500)
        /\ calls[c].result.kind = "FortitudeAPIError"
        /\ calls[c].result.status_code = Some(500)

\* C8: the delay slept after failed attempt a (counted from 0) is 2^a: the
\* delays of a call are 1, 2, 4, ... in this order, one per retry.
C8_DelaysDouble ==
    \A c \in CallIds :
        /\ \A i \in 1..Len(calls[c].delays) : calls[c].delays[i] = Doubling(i)
        /\ Len(calls[c].delays) \in {calls[c].attempt, calls[c].attempt + 1}

\* C8 witness: a call slept 1 after a transport failure and 2 after a 503.
C8_Witness ==
    \E c \in CallIds :
        /\ calls[c].delays = <<1, 2>>
        /\ IsFailureTag(calls[c].hist[1]) /\ IsStatusTag(calls[c].hist[2], 503)

\* C9: with max_retries >= 2, the outcomes 503, 503, 200 give exactly three
\* attempts, the decoded payload of the 200 response and 1 + 2 = 3 time units
\* of backoff.
C9_TwoRetriesThenSuccess ==
    \A c \in CallIds :
        LET call == calls[c] IN
        (/\ max_retries >= 2
         /\ Len(call.hist) = 3
         /\ IsStatusTag(call.hist[1], 503) /\ IsStatusTag(call.hist[2], 503)
         /\ IsStatusTag(call.hist[3], 200)
         /\ IsObjectBody(call.last.body))
        => /\ call.pc = "done"
           /\ call.attempts = 3
           /\ call.result = Ok(ObjectOf(call.last.body))
           /\ SumSeq(call.delays) = 3

\* C9 witness: a call has returned payload p2 after 503, 503, 200.
C9_Witness ==
    \E c \in CallIds :
        /\ calls[c].pc = "done" /\ calls[c].attempts = 3
        /\ IsStatusTag(calls[c].hist[1], 503) /\ IsStatusTag(calls[c].hist[2], 503)
        /\ calls[c].last = Response(200, BodyPayload2)
        /\ calls[c].result = Ok(ObjectOf(BodyPayload2))

\* C10: a 404 response whose body is a JSON object with message, error_code
\* and request_id ends the call, without a retry, in a FortitudeAPIError with
\* those three values and status code 404.
C10_NotFoundSurfacesBodyFields ==
    \A c \in CallIds :
        LET call == calls[c] IN
        (/\ call.hist # <<>>
         /\ call.last.kind = "response" /\ call.last.status = 404
         /\ IsObjectBody(call.last.body)
         /\ {"message", "error_code", "request_id"} \subseteq DOMAIN call.last.body.fields)
        => /\ call.pc = "done"
           /\ call.result.kind = "FortitudeAPIError"
           /\ call.result.message = <<call.last.body.fields.message>>
           /\ call.result.error_code = Some(call.last.body.fields.error_code)
           /\ call.result.request_id = Some(call.last.body.fields.request_id)
           /\ call.result.status_code = Some(404)
           /\ Len(call.delays) = Len(call.hist) - 1

\* C10 witness: a first response 404 with a full error body ended a call that
\* could still have retried.
C10_Witness ==
    \E c \in CallIds :
        /\ calls[c].pc = "done" /\ max_retries >= 1 /\ calls[c].attempts = 1
        /\ calls[c].delays = <<>>
        /\ calls[c].last = Response(404, BodyError)
        /\ calls[c].result.kind = "FortitudeAPIError"
        /\ calls[c].result.error_code = <<"E1">>

\* C11: every stored key is the key of a GET request; a POST call, also one
\* with use_cache true on a cache-enabled client, goes to its attempt without
\* a cache hit and no step taken while it runs changes the cache.
C11_OnlyGetKeysStored ==
    [][/\ \A k \in DOMAIN cache' : k[1] = "GET"
       /\ \A c \in CallIds, req \in Requests :
            (Begin(c, req) /\ req.method = "POST")
                => calls'[c].pc = "attempt" /\ cache' = cache
       /\ \A c \in CallIds, o \in Outcomes :
            (Attempt(c, o) /\ calls[c].req.method = "POST") => cache' = cache]_vars

\* C11 witness: a second POST call with use_cache true on a cache-enabled
\* client has returned a 200 payload from the transport while a GET entry is
\* stored.
C11_Witness ==
    \E c \in CallIds :
        /\ calls[c].pc = "done" /\ calls[c].req.method = "POST"
        /\ calls[c].req.use_cache /\ enable_cache
        /\ calls[c].result.kind = "ok" /\ calls[c].attempts >= 1
        /\ ncalls = 2

\* C13 (as claimed): in both variants an attempt that times out is retried
\* while attempt < max_retries and, on the last attempt, ends the call with a
\* FortitudeAPIError.
C13_Claim ==
    \A c \in CallIds :
        (calls[c].hist # <<>> /\ calls[c].last.kind = "timeout")
        => IF Len(calls[c].hist) <= max_retries
           THEN calls[c].pc \in {"sleep", "attempt"}
           ELSE /\ calls[c].pc = "done"
                /\ calls[c].result.kind = "FortitudeAPIError"

\* C14 (as claimed): a finished call has returned a decoded payload or raised
\* a FortitudeAPIError, nothing else.
C14_Claim ==
    \A c \in CallIds :
        calls[c].pc = "done" => calls[c].result.kind \in {"ok", "FortitudeAPIError"}

\* two passes through the loop body that agree in what the caller can see
SameStep(s, t) ==
    /\ s.next = t.next /\ s.delay = t.delay /\ s.store = t.store
    /\ s.result.kind = t.result.kind
    /\ s.result.kind = "ok" => s.result = t.result
    /\ s.result.kind = "FortitudeAPIError"
          => /\ s.result.status_code = t.result.status_code
             /\ s.result.error_code = t.result.error_code

\* C16 (as claimed): for the same configuration, request, attempt number and
\* transport outcome the blocking and the cooperative loop body do the same.
C16_Claim ==
    \A c \in CallIds :
        calls[c].pc = "attempt"
        => \A o \in Outcomes :
              SameStep(sync_attempt(calls[c].req, o, calls[c].attempt),
                       async_attempt(calls[c].req, o, calls[c].attempt))

\* C19 (as claimed): a transient status received on the last allowed attempt
\* ends the call with a FortitudeAPIError that has the response's status and,
\* when the body is a JSON object, the body's fields.
C19_Claim ==
    \A c \in CallIds :
        LET call == calls[c] IN
        (/\ call.hist # <<>>
         /\ call.last.kind = "response"
         /\ call.last.status \in {429, 500, 502, 503, 504}
         /\ Len(call.hist) = max_retries + 1)
        => /\ call.pc = "done"
           /\ call.result.kind = "FortitudeAPIError"
           /\ call.result.status_code = Some(call.last.status)
           /\ IsObjectBody(call.last.body)
                => /\ call.result.message = <<call.last.body.fields.message>>
                   /\ call.result.error_code = Some(call.last.body.fields.error_code)
                   /\ call.result.request_id = Some(call.last.body.fields.request_id)
                   /\ call.result.details = Some(call.last.body.fields.details)

\* C20: a step changes the cache only when a cacheable GET call (use_cache
\* true, cache enabled) takes a 200 response with a decodable body; then the
\* entry of that call's key, and no other, becomes {payload, current time}.
\* Such a call always stores.  On a cache-disabled client the cache stays empty.
C20_CacheChangesOnlyOnCacheable200 ==
    [][/\ cache' # cache
          => \E c \in CallIds :
                /\ calls[c].pc = "attempt" /\ calls'[c].pc = "done"
                /\ IsCacheableCall(calls[c].req)
                /\ calls'[c].last.kind = "response" /\ calls'[c].last.status = 200
                /\ calls'[c].result.kind = "ok"
                /\ DOMAIN cache' = DOMAIN cache \cup {calls[c].key}
                /\ cache'[calls[c].key] =
                      [data |-> calls'[c].result.data, timestamp |-> now]
                /\ \A k \in DOMAIN cache : k # calls[c].key => cache'[k] = cache[k]
       /\ \A c \in CallIds :
            (/\ calls[c].pc = "attempt" /\ calls'[c].pc = "done"
             /\ IsCacheableCall(calls[c].req) /\ calls'[c].result.kind = "ok")
            => /\ calls[c].key \in DOMAIN cache'
               /\ cache'[calls[c].key] =
                      [data |-> calls'[c].result.data, timestamp |-> now]
       /\ ~enable_cache => cache' = <<>>]_vars

\* C20 witness: two keys are stored, with different payloads, the second
\* written later than the first.
C20_Witness ==
    \E k1, k2 \in DOMAIN cache :
        /\ k1 # k2 /\ cache[k1].data # cache[k2].data
        /\ cache[k1].timestamp < cache[k2].timestamp

\* C12: when two callers issue calls on one client, whatever the interleaving,
\* the cache stays well formed: its keys are those of the cacheable GET calls
\* that returned a 200 payload, the entry of a key is the payload and the
\* write time of the last such call (last writer wins), the payload being one a
\* 200 response carried.  No call fails because of the interleaving: a call
\* that finished without an attempt was served from the cache, a call whose
\* last response was a decodable 200 returns it, and a call that raised saw
\* a last attempt that was not a decodable 200.
C12_ConcurrentCallsKeepCacheWellFormed ==
    /\ DOMAIN cache = DOMAIN served
    /\ \A k \in DOMAIN cache :
          /\ cache[k] = served[k]
          /\ cache[k].data \in {ObjectOf(BodyPayload1), ObjectOf(BodyPayload2)}
          /\ cache[k].timestamp <= now
    /\ \A c \in DOMAIN calls :
          calls[c].pc = "done"
          => /\ calls[c].attempts = 0 => calls[c].result.kind = "ok"
             /\ (/\ calls[c].attempts >= 1
                 /\ IsStatusTag(Tag(calls[c].last), 200)
                 /\ IsObjectBody(calls[c].last.body))
                => calls[c].result = Ok(ObjectOf(calls[c].last.body))
             /\ IsError(calls[c].result)
                => /\ calls[c].attempts >= 1
                   /\ ~(/\ IsStatusTag(Tag(calls[c].last), 200)
                        /\ IsObjectBody(calls[c].last.body))

\* C12 witness: both callers asked for the same cacheable key, both went to
\* the transport although the entry of the key never expired, they got
\* different payloads, and the cache holds the one written last, which is not
\* the one written first.
C12_Witness ==
    /\ DOMAIN calls = ConcIds
    /\ enable_cache /\ now < cache_ttl
    /\ calls[1].pc = "done" /\ calls[2].pc = "done"
    /\ calls[1].key = calls[2].key
    /\ calls[1].attempts >= 1 /\ calls[2].attempts >= 1
    /\ calls[1].result = Ok(ObjectOf(BodyPayload1))
    /\ calls[2].result = Ok(ObjectOf(BodyPayload2))
    /\ calls[1].key \in DOMAIN cache
    /\ cache[calls[1].key].data = ObjectOf(BodyPayload2)
    /\ ncalls = 2

\* C15: every handle the client acquired is released exactly once at
\* teardown: none is ever closed twice, and once every scope is left (or
\* close() was called) none is left open.
C15_Claim ==
    /\ \A h \in DOMAIN handles : handles[h] <= 1
    /\ (client.state = "ready" /\ client.scope = 0 /\ client.ops > 0)
       => \A h \in DOMAIN handles : handles[h] = 1

\* C17: a construction that is given no credential, neither as argument nor
\* in the environment, fails with ValueError; no handle was created and no
\* call can be made.
C17_NoCredentialFailsBeforeHandle ==
    (/\ client.state # "pending"
     /\ client.args.api_key = None /\ client.env.api_key = None)
    => /\ client.state = "failed"
       /\ client.error = Some("ValueError")
       /\ session = None
       /\ handles = <<>>
       /\ ncalls = 0

\* C17 witness: a blocking client was constructed with every other input
\* well formed and no credential, and the construction failed.
C17_Witness ==
    /\ variant = "blocking"
    /\ client.state = "failed"
    /\ client.args.api_key = None /\ client.env.api_key = None
    /\ client.args.timeout = Some(5) /\ client.args.max_retries = Some(1)
    /\ handles = <<>>

\* the value the specification gives a numeric input: the argument when it is
\* given, else the environment's, else the default
Specified(arg, env, default) ==
    IF arg # None THEN arg[1] ELSE IF env # None THEN IntOf(env[1]) ELSE default

\* C18: a constructed client holds, for the timeout and for the retry count,
\* the argument when one was given (0 included), else the environment's
\* value, else the default (30 and 3); with an explicit retry count of 0 a
\* call makes one attempt only.
C18_Claim ==
    client.state = "ready"
    => /\ client.timeout = Specified(client.args.timeout, client.env.timeout, 30)
       /\ max_retries = Specified(client.args.max_retries, client.env.max_retries, 3)
       /\ client.args.max_retries = Some(0)
          => \A c \in DOMAIN calls : calls[c].attempts <= 1

\* C21: no step removes a key from the cache: the set of stored keys only
\* grows, whatever the callers do and however much time passes; an entry
\* changes only by being overwritten at the current time, so an expired entry
\* stays as it is until then.
C21_StoredKeysOnlyGrow ==
    [][/\ DOMAIN cache \subseteq DOMAIN cache'
       /\ \A k \in DOMAIN cache :
             cache'[k] # cache[k] => cache'[k].timestamp = now]_vars

\* C21 witness: an entry has expired and is still in storage, and a call for
\* its key found it absent and is at its attempt.
C21_Witness ==
    \E k \in DOMAIN cache :
        /\ ~IsFresh(cache[k])
        /\ \E c \in DOMAIN calls :
              /\ calls[c].pc = "attempt" /\ calls[c].key = k
              /\ IsCacheableCall(calls[c].req)

\* C22: the attempt index belongs to one call.  A step changes the record of
\* one call at most; a call that begins starts at index 0 with no attempts and
\* no delays; an attempt leaves the index alone and counts one attempt; a
\* sleep always ends in the next attempt, at the index plus one; and each call
\* makes at most max_retries + 1 attempts and sleeps 1, 2, 4, ..., whatever
\* the other call is doing.
C22_AttemptCounterIsPrivate ==
    [][\A c \in DOMAIN calls :
          calls'[c] # calls[c]
          => /\ \A d \in DOMAIN calls \ {c} : calls'[d] = calls[d]
             /\ calls[c].pc \in {"idle", "done"}
                => /\ calls'[c].attempt = 0 /\ calls'[c].attempts = 0
                   /\ calls'[c].delays = <<>>
             /\ calls[c].pc = "attempt"
                => /\ calls'[c].attempt = calls[c].attempt
                   /\ calls'[c].attempts = calls[c].attempts + 1
             /\ calls[c].pc = "sleep"
                => /\ calls'[c].pc = "attempt"
                   /\ calls'[c].attempt = calls[c].attempt + 1
                   /\ calls'[c].attempts = calls[c].attempts
             /\ calls'[c].attempts <= max_retries + 1
             /\ \A k \in 1..Len(calls'[c].delays) : calls'[c].delays[k] = Doubling(k)]_vars

\* C22 witness: both calls are in flight at different indexes: the first is at
\* its second attempt after sleeping 1, the second still sleeps after its
\* first attempt.
C22_Witness ==
    /\ DOMAIN calls = ConcIds
    /\ calls[1].pc = "attempt" /\ calls[1].attempt = 1 /\ calls[1].delays = <<1>>
    /\ calls[2].pc = "sleep" /\ calls[2].attempt = 0 /\ calls[2].attempts = 1

\* C23: the cache is consulted at the entry of a call only.  A call that is
\* in the attempt loop ends only through an attempt of its own, and when it
\* returns, it returns the payload of that attempt's response and, if it is
\* cacheable, stores it; a sleep ends in the next attempt even when a live
\* entry for the key has been stored meanwhile.
C23_NoLookupInsideTheLoop ==
    [][\A c \in DOMAIN calls :
          /\ (calls[c].pc \in {"attempt", "sleep"} /\ calls'[c].pc = "done")
             => /\ calls'[c].attempts = calls[c].attempts + 1
                /\ calls'[c].result.kind = "ok"
                   => /\ calls'[c].result = Ok(ObjectOf(calls'[c].last.body))
                      /\ IsCacheableCall(calls[c].req)
                         => cache'[calls[c].key] =
                               [data |-> calls'[c].result.data, timestamp |-> now]
          /\ (calls[c].pc = "sleep" /\ calls'[c] # calls[c])
             => calls'[c].pc = "attempt"]_vars

\* C23 witness: the first call missed, failed once and slept; the second
\* call stored its payload for the same key meanwhile; the entry never
\* expired, and yet the first call made its second attempt, returned its own
\* payload and overwrote the entry.
C23_Witness ==
    /\ DOMAIN calls = ConcIds
    /\ enable_cache /\ now < cache_ttl
    /\ calls[1].pc = "done" /\ calls[2].pc = "done"
    /\ calls[1].key = calls[2].key
    /\ calls[1].attempts = 2 /\ calls[1].delays = <<1>>
    /\ calls[2].attempts = 1
    /\ calls[1].result = Ok(ObjectOf(BodyPayload1))
    /\ calls[2].result = Ok(ObjectOf(BodyPayload2))
    /\ cache[calls[1].key].data = ObjectOf(BodyPayload1)
    /\ ncalls = 2

\* a call that ended at the cache test, with the entry it read still in place
ServedFromCache(call) ==
    /\ call.pc = "done" /\ call.attempts = 0
    /\ call.key \in DOMAIN cache
    /\ call.result = Ok(cache[call.key].data)
    /\ now - cache[call.key].timestamp < cache_ttl

\* C24: a hit changes nothing in the cache.  A call that is served from the
\* cache returns the entry of its key, that entry is younger than the TTL
\* counted from its own write, and payload and timestamp of every entry are
\* the same after the hit.
C24_HitLeavesEntryAlone ==
    [][ncalls' = ncalls + 1
       => /\ cache' = cache
          /\ \A c \in DOMAIN calls :
                (calls'[c] # calls[c] /\ calls'[c].pc = "done")
                => ServedFromCache(calls'[c])
          /\ calls' = calls => \E c \in DOMAIN calls : ServedFromCache(calls[c])]_vars

\* C24 witness: a call was served from the cache, and the entry it was
\* served from has expired since, at its own write time plus the TTL.
C24_Witness ==
    \E c \in DOMAIN calls :
        /\ calls[c].pc = "done" /\ calls[c].attempts = 0
        /\ calls[c].key \in DOMAIN cache
        /\ calls[c].result = Ok(cache[calls[c].key].data)
        /\ now = cache[calls[c].key].timestamp + cache_ttl
        /\ ~IsFresh(cache[calls[c].key])

\* C25: a call whose last attempt did not bring a decodable 200 response
\* ends with an error and leaves the cache as it was, also when the cache
\* holds an expired entry for its key: the stale payload is not returned and
\* the stale entry is not touched.
C25_FailedRefreshSurfacesError ==
    [][\A c \in DOMAIN calls :
          (/\ calls[c].pc = "attempt" /\ calls'[c].pc = "done"
           /\ ~(/\ IsStatusTag(Tag(calls'[c].last), 200)
                /\ IsObjectBody(calls'[c].last.body)))
          => /\ IsError(calls'[c].result)
             /\ cache' = cache]_vars

\* C25 witness: a cacheable call found the entry of its key expired, all its
\* attempts failed, it ended with an error and the expired entry is still
\* there.
C25_Witness ==
    \E c \in DOMAIN calls :
        /\ calls[c].pc = "done" /\ IsCacheableCall(calls[c].req)
        /\ calls[c].attempts = max_retries + 1 /\ max_retries >= 1
        /\ \A i \in 1..Len(calls[c].hist) : IsFailureTag(calls[c].hist[i])
        /\ calls[c].result.kind = "FortitudeAPIError"
        /\ calls[c].key \in DOMAIN cache
        /\ cache[calls[c].key].timestamp + cache_ttl <= now - SumSeq(calls[c].delays)
        /\ cache[calls[c].key].data = ObjectOf(BodyPayload1)

\* C26: a delay is slept between two attempts only.  While a call is in the
\* loop it has slept once per attempt made so far before the current one; when
\* it has ended after at least one attempt it has slept one time fewer than it
\* attempted; and a call that used all its max_retries + 1 attempts slept
\* 2^max_retries - 1 in total.
C26_OneDelayBetweenAttempts ==
    \A c \in DOMAIN calls :
        /\ calls[c].pc = "attempt" => Len(calls[c].delays) = calls[c].attempts
        /\ calls[c].pc = "sleep" => Len(calls[c].delays) = calls[c].attempts
        /\ (calls[c].pc = "done" /\ calls[c].attempts >= 1)
           => Len(calls[c].delays) = calls[c].attempts - 1
        /\ (calls[c].pc = "done" /\ calls[c].attempts = max_retries + 1)
           => SumSeq(calls[c].delays) = 2 ^ max_retries - 1

\* C26 witness: a call with two retries allowed used its three attempts and
\* ended with an error right after the third, having slept 1 + 2.
C26_Witness ==
    \E c \in DOMAIN calls :
        /\ max_retries = 2
        /\ calls[c].pc = "done" /\ calls[c].attempts = 3
        /\ IsError(calls[c].result)
        /\ calls[c].delays = <<1, 2>>
        /\ now = SumSeq(calls[c].delays)

\* a history that holds a transport failure and a transient status
IsMixedHistory(hist) ==
    /\ \E i \in 1..Len(hist) : IsFailureTag(hist[i])
    /\ \E j \in 1..Len(hist) : hist[j].kind = "response" /\ IsTransient(hist[j].status)

\* C27: transport failures and transient statuses are counted together.  In
\* a call that met both, the k-th retry was preceded by a delay of 2^(k-1)
\* whichever kind of outcome caused it, and the attempts of both kinds
\* together are at most max_retries + 1.
C27_MixedRetriesShareOneCounter ==
    \A c \in DOMAIN calls :
        IsMixedHistory(calls[c].hist)
        => /\ calls[c].attempts <= max_retries + 1
           /\ Len(calls[c].hist) = calls[c].attempts
           /\ \A k \in 1..Len(calls[c].delays) : calls[c].delays[k] = 2 ^ (k - 1)

\* C27 witness: a call met a transient status, then a transport failure, then
\* a transient status again; it slept 1 after the first and 2 after the
\* second, and the third attempt was its last.
C27_Witness ==
    \E c \in DOMAIN calls :
        /\ calls[c].pc = "done" /\ max_retries = 2
        /\ Len(calls[c].hist) = 3
        /\ IsStatusTag(calls[c].hist[1], 503)
        /\ IsFailureTag(calls[c].hist[2])
        /\ IsStatusTag(calls[c].hist[3], 500)
        /\ calls[c].delays = <<1, 2>>
        /\ calls[c].result.kind = "FortitudeAPIError"

\* an error that carries the status and the raw text of a response and no
\* field of a body
CarriesRawResponse(result, o) ==
    /\ result.kind = "FortitudeAPIError"
    /\ result.status_code = Some(o.status)
    /\ \E i \in 1..Len(result.message) : result.message[i] = ToString(o.status)
    /\ \E i \in 1..Len(result.message) : result.message[i] = o.body.raw
    /\ result.error_code = None /\ result.request_id = None /\ result.details = None

\* C28: a call whose last response has status 200 and a body that does not
\* decode ends with a FortitudeAPIError that carries the status 200 and the raw
\* text of the body; the body is neither returned nor stored.
C28_Claim ==
    \A c \in DOMAIN calls :
        (/\ calls[c].pc = "done" /\ calls[c].attempts >= 1
         /\ IsStatusTag(Tag(calls[c].last), 200)
         /\ calls[c].last.body.text = "bad")
        => CarriesRawResponse(calls[c].result, calls[c].last)

\* C29: a call whose last response has an error status and a body that does
\* not decode ends, in both clients, with a FortitudeAPIError whose message
\* holds the status and the raw text, whose status code is the status, and
\* whose error code, request id and details are absent.
C29_Claim ==
    \A c \in DOMAIN calls :
        (/\ calls[c].pc = "done" /\ calls[c].attempts >= 1
         /\ calls[c].last.kind = "response" /\ calls[c].last.status # 200
         /\ calls[c].last.body.text = "bad")
        => CarriesRawResponse(calls[c].result, calls[c].last)

\* C30: a call whose last response has an error status and a body that
\* decodes to an object ends with a FortitudeAPIError whose status code is the
\* response's status, whose message is the body's message, or "Unknown error"
\* when the body has none, and whose error code, request id and details are
\* those of the body, each absent when the body lacks it.
C30_ErrorFieldsFollowBody ==
    \A c \in DOMAIN calls :
        (/\ calls[c].pc = "done" /\ calls[c].attempts >= 1
         /\ calls[c].last.kind = "response" /\ calls[c].last.status # 200
         /\ IsObjectBody(calls[c].last.body))
        => LET fields == calls[c].last.body.fields
               result == calls[c].result
           IN /\ result.kind = "FortitudeAPIError"
              /\ result.status_code = Some(calls[c].last.status)
              /\ result.message = IF "message" \in DOMAIN fields
                                  THEN <<fields["message"]>> ELSE <<"Unknown error">>
              /\ \A k \in {"error_code", "request_id", "details"} :
                    result[k] = IF k \in DOMAIN fields THEN Some(fields[k]) ELSE None

\* C30 witness: a transient status met on the last attempt, with a body that
\* holds a request id and nothing else: the error has the message
\* "Unknown error", the status 503, the request id, and neither error code
\* nor details.
C30_Witness ==
    \E c \in DOMAIN calls :
        /\ calls[c].pc = "done" /\ calls[c].attempts = 2
        /\ calls[c].last = Response(503, BodyErrorWith({"request_id"}))
        /\ calls[c].result =
              FortitudeAPIError(<<"Unknown error">>, None, Some(503), Some("r1"), None)

\* C31: a FortitudeAPIError that ends a call whose last attempt was a
\* transport failure has no status code, no error code, no request id and no
\* details, and its message names the cause; a FortitudeAPIError that ends a
\* call whose last attempt brought a response has that response's status code.
C31_Claim ==
    \A c \in DOMAIN calls :
        (/\ calls[c].pc = "done" /\ calls[c].attempts >= 1
         /\ calls[c].result.kind = "FortitudeAPIError")
        => IF IsFailureTag(Tag(calls[c].last))
           THEN /\ calls[c].result.status_code = None
                /\ calls[c].result.error_code = None
                /\ calls[c].result.request_id = None
                /\ calls[c].result.details = None
                /\ calls[c].result.message \in
                      { <<"Request failed: ", requests_raises(calls[c].last)>>,
                        <<"Request failed: ", aiohttp_raises(calls[c].last)>> }
           ELSE calls[c].result.status_code = Some(calls[c].last.status)

\* the dict a parameter argument denotes: None and {} denote the empty dict,
\* and the order of insertion is not part of it
AsMapping(params) ==
    IF params = None THEN <<>>
    ELSE LET items == params[1]
         IN [k \in { items[i][1] : i \in 1..Len(items) } |->
                items[CHOOSE i \in 1..Len(items) : items[i][1] = k][2]]

SameMapping(p, q) == AsMapping(p) = AsMapping(q)

\* C32: two requests get the same cache key exactly when they have the same
\* method, the same resolved URL and the same parameter dict, whatever the
\* order in which the parameters were inserted, an absent dict counting as the
\* empty one; the body of the request plays no part.
C32_KeyIsCanonical ==
    \A c, d \in DOMAIN calls :
        (calls[c].req # NoRequest /\ calls[d].req # NoRequest)
        => (calls[c].key = calls[d].key
            <=> /\ calls[c].req.method = calls[d].req.method
                /\ urljoin(BaseUrl, calls[c].req.endpoint)
                      = urljoin(BaseUrl, calls[d].req.endpoint)
                /\ SameMapping(calls[c].req.params, calls[d].req.params))

\* C32 witness: the second caller was served from the entry the first stored,
\* although its parameters were inserted in the other order and its body
\* differs.
C32_Witness ==
    /\ DOMAIN calls = ConcIds
    /\ calls[1].pc = "done" /\ calls[1].attempts = 1
    /\ calls[2].pc = "done" /\ calls[2].attempts = 0
    /\ calls[1].key = calls[2].key
    /\ calls[1].req.params = Some(<<<<"offset", 0>>, <<"limit", 20>>>>)
    /\ calls[2].req.params = Some(<<<<"limit", 20>>, <<"offset", 0>>>>)
    /\ calls[1].req.data # calls[2].req.data
    /\ calls[2].result = calls[1].result

\* C33: a call that begins on the async client while no session is open,
\* because none was entered or because the one held was closed, ends at once
\* with the usage error, without cache lookup and without attempt.
C33_Claim ==
    [][\A c \in DOMAIN calls :
          (/\ variant = "async" /\ ncalls' = ncalls + 1 /\ calls'[c] # calls[c]
           /\ (session = None \/ SessionClosed))
          => /\ calls'[c].pc = "done"
             /\ calls'[c].result = Raised("RuntimeError")]_vars

\* C34: every public operation that posts delegates with use_cache false
\* and goes to the transport each time it is called; every public operation
\* that gets delegates with use_cache true, and on a cache-enabled client
\* that holds a live entry for its key it is served from the entry without
\* an attempt.
C34_FacadeCacheability ==
    [][\A c \in DOMAIN calls :
          (ncalls' = ncalls + 1 /\ calls'[c] # calls[c])
          => LET call == calls'[c] IN
             /\ call.req.method \in {"GET", "POST"}
             /\ call.req.method = "POST"
                => /\ ~call.req.use_cache
                   /\ call.pc = "attempt"
             /\ call.req.method = "GET"
                => /\ call.req.use_cache
                   /\ (/\ enable_cache /\ call.key \in DOMAIN cache
                       /\ IsFresh(cache[call.key]))
                      => /\ call.pc = "done" /\ call.attempts = 0
                         /\ call.result = Ok(cache[call.key].data)]_vars

\* C34 witness: on a cache-enabled client, within the TTL, both callers
\* submitted the same research query and each call made its own attempt and
\* returned; nothing was stored.
C34_Witness ==
    /\ DOMAIN calls = ConcIds
    /\ enable_cache /\ now < cache_ttl
    /\ \A c \in ConcIds :
          /\ calls[c].req = Delegate("research")
          /\ calls[c].pc = "done" /\ calls[c].attempts = 1
          /\ calls[c].result = Ok(ObjectOf(BodyPayload1))
    /\ cache = <<>>

\* C35: every call ends.  When every attempt returns and every delay
\* elapses, a call that is in the attempt loop eventually returns a payload
\* or raises, whatever the outcomes of its attempts.
C35_EveryCallEnds ==
    \A c \in CallIds :
        (calls[c].pc \in {"attempt", "sleep"}) ~> (calls[c].pc = "done")

\* C35 witness: a call met a retryable outcome at each of its three attempts,
\* slept after the first two, and ended with an error after the third.
C35_Witness ==
    \E c \in CallIds :
        /\ max_retries = 2
        /\ calls[c].pc = "done" /\ calls[c].attempts = 3
        /\ calls[c].delays = <<1, 2>>
        /\ calls[c].result.kind = "FortitudeAPIError"
        /\ now >= 3

\* C36: status and exit status of the phase validator.  A validated phase is
\* PASSED exactly when each of its checks is true and FAILED otherwise; the
\* process exits with 1 exactly when a validated phase is FAILED and with 0
\* otherwise; with no phase selected all three phases are validated.  It is
\* stated of the runs whose --phase is absent or one of the choices.
C36_Claim ==
    /\ \A key \in DOMAIN validator.results :
          LET r == validator.results[key]
          IN /\ r.status \in {"PASSED", "FAILED"}
             /\ r.status = "PASSED" <=> \A k \in DOMAIN r.checks : r.checks[k]
    /\ (validator.pc = "exited" /\ validator.phase \in {None, Some("1"), Some("2"), Some("3")})
       => /\ validator.exit \in {Some(0), Some(1)}
          /\ validator.exit = Some(1)
             <=> \E key \in DOMAIN validator.results :
                    validator.results[key].status = "FAILED"
          /\ validator.phase = None
             => DOMAIN validator.results = {"phase_1", "phase_2", "phase_3"}

\* the checks of phase 2 and of phase 3 on a project
Phase2Checks(project) ==
    /\ check_feature_selection(project) = "True"
    /\ check_implementation_plan(project) = "True"
    /\ check_complexity_assessment(project) = "True"
    /\ check_dependencies(project) = "True"
    /\ check_timeline_approval(project) = "True"
    /\ check_human_signoff(project, "phase-2") = "True"
Phase3Checks(project, git) ==
    /\ check_code_implementation(project) = "True"
    /\ check_comprehensive_testing(project) = "True"
    /\ check_quality_gates(project, git) = "True"
    /\ check_documentation(project) = "True"
    /\ check_security_validation(project, git) = "True"
    /\ check_performance_testing(project) = "True"
    /\ check_human_business_validation(project) = "True"

\* C37: each phase is judged by its own checks alone.  Whatever the report
\* says of phase 1, phase 2 is PASSED, and required_for_phase_3 true, exactly
\* when the six checks of phase 2 hold of the project; whatever it says of
\* phase 2, phase 3 is PASSED, and ready_for_production true, exactly when the
\* seven checks of phase 3 hold.
C37_OwnChecksOnly ==
    /\ "phase_2" \in DOMAIN validator.results
       => LET r == validator.results["phase_2"]
          IN /\ r.status = "PASSED" <=> Phase2Checks(validator.project)
             /\ r.required_for_phase_3 <=> Phase2Checks(validator.project)
             /\ DOMAIN r.checks =
                  {"features_selected", "implementation_plan", "complexity_assessed",
                   "dependencies_identified", "timeline_approved", "human_signoff"}
    /\ "phase_3" \in DOMAIN validator.results
       => LET r == validator.results["phase_3"]
          IN /\ r.status = "PASSED" <=> Phase3Checks(validator.project, validator.git)
             /\ r.ready_for_production
                <=> Phase3Checks(validator.project, validator.git)
             /\ DOMAIN r.checks =
                  {"code_implemented", "tests_comprehensive", "quality_gates_passed",
                   "documentation_complete", "security_validated", "performance_tested",
                   "human_validation"}

\* C37 witness: one report shows phase 1 FAILED with required_for_phase_2
\* false, and phase 2 PASSED.
C37_Witness ==
    /\ {"phase_1", "phase_2"} \subseteq DOMAIN validator.results
    /\ validator.results["phase_1"].status = "FAILED"
    /\ ~validator.results["phase_1"].required_for_phase_2
    /\ validator.results["phase_2"].status = "PASSED"
    /\ validator.results["phase_2"].required_for_phase_3

\* C38: the statement after the loop is never reached.  A finished call never
\* carries "Max retries exceeded"; one that made no attempt returned a payload
\* of the cache, and every other made at least one attempt and ended with what
\* the handling of its last attempt's outcome returned or raised.
C38_LoopEndsInside ==
    \A c \in DOMAIN calls :
        calls[c].pc = "done"
        => /\ max_retries >= 0
           /\ calls[c].result # MaxRetriesExceeded
           /\ calls[c].attempts = 0 => calls[c].result.kind = "ok"
           /\ calls[c].attempts >= 1
              => /\ calls[c].attempt = calls[c].attempts - 1
                 /\ calls[c].hist[calls[c].attempts] = Tag(calls[c].last)
                 /\ LET s == attempt_step(calls[c].req, calls[c].last, calls[c].attempt)
                    IN s.next # "retry" /\ calls[c].result = s.result

\* C38 witness: with max_retries 0 a call met a 503, which is retryable, at its
\* only attempt and raised the error of that response.
C38_Witness ==
    \E c \in DOMAIN calls :
        /\ max_retries = 0
        /\ calls[c].pc = "done" /\ calls[c].attempts = 1
        /\ IsStatusTag(calls[c].hist[1], 503)
        /\ calls[c].result.kind = "FortitudeAPIError"
        /\ calls[c].result.status_code = Some(503)

====
